---- MODULE Spec2Model ----
(***************************************************************************)
(* wagtailseo/blocks.py: the two structured-data projections               *)
(*   OpenHoursValue.struct_dict            (lines 43-53)                   *)
(*   StructuredDataActionValue.struct_dict (lines 95-130)                  *)
(* modelled over Python values.  A Python value is a record                *)
(*   [t, s, n, b, items]                                                   *)
(* where t names the Python type.  A str is the sequence of its code       *)
(* points, a dict the sequence of its (key, value) pairs in insertion      *)
(* order, a list the sequence of its elements.  JSON text (the extra_json  *)
(* field) is a str, so json.loads is a parser over code points and not the *)
(* identity.  callsLeft is the number of Python calls that can still be    *)
(* nested inside the body of a property when it is read, which is what the *)
(* stack the read is made from leaves of sys.getrecursionlimit().          *)
(***************************************************************************)
EXTENDS Integers, Sequences, FiniteSets, TLC

VARIABLES action, hours, actionOut, hoursOut, reads, callsLeft

vars == <<action, hours, actionOut, hoursOut, reads, callsLeft>>

(***************************************************************************)
(* Bounds of the model.                                                    *)
(***************************************************************************)
\* longest `days` selection an OpenHours entry is built with
MaxDays == 2
\* number of struct_dict reads in one behaviour
MaxReads == 3

(***************************************************************************)
(* Python str: the sequence of its code points.  S writes one down from    *)
(* a literal of printable ASCII characters.                                *)
(***************************************************************************)
\* the characters of code points 32 to 95, in order
ASCII_32 ==
    " !\"#$%&'()*+,-./0123456789:;<=>?@ABCDEFGHIJKLMNOPQRSTUVWXYZ[\\]^_"

\* the characters of code points 97 to 126, in order
ASCII_97 == "abcdefghijklmnopqrstuvwxyz{|}~"

\* ord(c) of a printable ASCII character
Ord ==
    [c \in {SubSeq(ASCII_32, i, i) : i \in 1..Len(ASCII_32)}
            \cup {SubSeq(ASCII_97, i, i) : i \in 1..Len(ASCII_97)} |->
        IF \E i \in 1..Len(ASCII_32) : SubSeq(ASCII_32, i, i) = c
        THEN 31 + CHOOSE i \in 1..Len(ASCII_32) : SubSeq(ASCII_32, i, i) = c
        ELSE 96 + CHOOSE i \in 1..Len(ASCII_97) : SubSeq(ASCII_97, i, i) = c]

\* the str of a literal
S(x) == [i \in 1..Len(x) |-> Ord[SubSeq(x, i, i)]]

(***************************************************************************)
(* Python values.                                                          *)
(***************************************************************************)
None == [t |-> "NoneType", s |-> <<>>, n |-> 0, b |-> FALSE, items |-> <<>>]

\* a str with the code points x
Str(x) == [t |-> "str", s |-> x, n |-> 0, b |-> FALSE, items |-> <<>>]

\* the str of a literal
Lit(x) == Str(S(x))

\* digits without the zeros in front
StripLeadingZeros(digits) ==
    IF \A i \in 1..Len(digits) : digits[i] = 0 THEN <<>>
    ELSE SubSeq(digits, CHOOSE k \in 1..Len(digits) :
                            digits[k] # 0 /\ \A j \in 1..(k - 1) : digits[j] = 0,
                Len(digits))

\* digits without the zeros at the end
StripTrailingZeros(digits) ==
    IF \A i \in 1..Len(digits) : digits[i] = 0 THEN <<>>
    ELSE SubSeq(digits, 1, CHOOSE k \in 1..Len(digits) :
                               digits[k] # 0 /\ \A j \in (k + 1)..Len(digits) : digits[j] = 0)

\* an int of any size: its decimal digits, most significant first (none
\* for 0), and its sign
IntOfDigits(negative, digits) ==
    [t |-> "int", s |-> StripLeadingZeros(digits), n |-> 0,
     b |-> negative /\ StripLeadingZeros(digits) # <<>>, items |-> <<>>]

RECURSIVE NatDigits(_)
\* the decimal digits of a natural number
NatDigits(x) == IF x < 10 THEN <<x>> ELSE Append(NatDigits(x \div 10), x % 10)

\* the int x
PyInt(x) == IntOfDigits(x < 0, NatDigits(IF x < 0 THEN -x ELSE x))

(***************************************************************************)
(* Python float: an IEEE 754 double.  A finite double is kept as           *)
(*   (-1)^b * s * 2^n                                                      *)
(* with s the decimal digits of an odd natural number (none for zero), so  *)
(* one double has one record.  Natural numbers of any size are sequences   *)
(* of decimal digits, most significant first, none for 0.                  *)
(***************************************************************************)
\* float("inf") and float("-inf")
Inf(negative) == [t |-> "float", s |-> S("inf"), n |-> 0, b |-> negative, items |-> <<>>]

\* float("nan"): json.loads gives the one object json.decoder.NaN
NaN == [t |-> "float", s |-> S("nan"), n |-> 0, b |-> FALSE, items |-> <<>>]

\* 0.0 and -0.0
FloatZero(negative) == [t |-> "float", s |-> <<>>, n |-> 0, b |-> negative, items |-> <<>>]

\* x // 2
Half(x) ==
    StripLeadingZeros([i \in 1..Len(x) |->
        (x[i] \div 2) + (IF i > 1 /\ x[i - 1] % 2 = 1 THEN 5 ELSE 0)])

\* x * 2
Twice(x) ==
    StripLeadingZeros([i \in 1..(Len(x) + 1) |->
        (IF i = 1 THEN 0 ELSE (2 * x[i - 1]) % 10)
        + (IF i <= Len(x) /\ x[i] >= 5 THEN 1 ELSE 0)])

\* x + 1
PlusOne(x) ==
    StripLeadingZeros([i \in 1..(Len(x) + 1) |->
        IF \A j \in i..Len(x) : x[j] = 9
        THEN ((IF i = 1 THEN 0 ELSE x[i - 1]) + 1) % 10
        ELSE IF i = 1 THEN 0 ELSE x[i - 1]])

\* x % 2 = 1
IsOdd(x) == x # <<>> /\ x[Len(x)] % 2 = 1

\* x >= y
GeqNat(x, y) ==
    \/ Len(x) > Len(y)
    \/ /\ Len(x) = Len(y)
       /\ \/ x = y
          \/ \E i \in 1..Len(x) : x[i] > y[i] /\ \A j \in 1..(i - 1) : x[j] = y[j]

\* 2**53
Two53 == <<9, 0, 0, 7, 1, 9, 9, 2, 5, 4, 7, 4, 0, 9, 9, 2>>

\* 2**54
Two54 == <<1, 8, 0, 1, 4, 3, 9, 8, 5, 0, 9, 4, 8, 1, 9, 8, 4>>

RECURSIVE TwiceN(_, _)
\* x * 2**n
TwiceN(x, n) ==
    IF n <= 0 \/ x = <<>> THEN x
    ELSE IF n = 1 THEN Twice(x)
    ELSE TwiceN(TwiceN(x, n \div 2), n - (n \div 2))

\* a magnitude (x + f) * 2^k with 0 <= f < 1, sticky telling f > 0, has
\* more bits than a double can keep: x has over 54 bits, or its lowest bit
\* is below that of the smallest subnormal's half
TooWide(r) == GeqNat(r.x, Two54) \/ r.k < -1075

\* drop the lowest bit of x, remembering whether anything was dropped
HalveStep(r) == [x |-> Half(r.x), k |-> r.k + 1, sticky |-> r.sticky \/ IsOdd(r.x)]

RECURSIVE HalveUpTo(_, _)
\* HalveStep up to n times over, for as long as the magnitude is TooWide
HalveUpTo(r, n) ==
    IF ~TooWide(r) THEN r
    ELSE IF n <= 1 THEN HalveStep(r)
    ELSE HalveUpTo(HalveUpTo(r, n \div 2), n - (n \div 2))

\* halve until the magnitude is no longer TooWide: x has under 4 * Len(x)
\* bits, and k is raised to -1075 at most
Reduce(r) == HalveUpTo(r, 4 * Len(r.x) + (IF r.k < 0 THEN -r.k ELSE 0))

RECURSIVE EvenUpTo(_, _)
\* up to n factors of two of x moved into k
EvenUpTo(r, n) ==
    IF r.x = <<>> \/ IsOdd(r.x) THEN r
    ELSE IF n <= 1 THEN [x |-> Half(r.x), k |-> r.k + 1]
    ELSE EvenUpTo(EvenUpTo(r, n \div 2), n - (n \div 2))

\* x * 2^k written with x odd (x none and k 0 for zero)
OddPart(r) == IF r.x = <<>> THEN [x |-> <<>>, k |-> 0] ELSE EvenUpTo(r, 4 * Len(r.x))

\* the zeros at the end of a digit sequence
TrailingZeros(digits) == Len(digits) - Len(StripTrailingZeros(digits))

\* enough doublings for m * 2^t / 10^(-e) to have over 54 bits
Doublings(m, e) ==
    IF e >= 0 \/ 57 + ((10 * (-e)) \div 3) - 3 * (Len(m) - 1) <= 0 THEN 0
    ELSE 57 + ((10 * (-e)) \div 3) - 3 * (Len(m) - 1)

\* y / 10^drop as a whole number x * 2^(-t), sticky when digits were dropped
Shifted(y, drop, t) ==
    [x |-> SubSeq(y, 1, Len(y) - drop), k |-> -t,
     sticky |-> \E i \in (Len(y) - drop + 1)..Len(y) : y[i] # 0]

\* m * 10^e as x * 2^k with x a whole number of at least 54 bits
Scaled(m, e) ==
    IF e >= 0 THEN [x |-> m \o [i \in 1..e |-> 0], k |-> 0, sticky |-> FALSE]
    ELSE Shifted(TwiceN(m, Doublings(m, e)), -e, Doublings(m, e))

\* round-half-even of r, which has 54 bits or sits at the smallest
\* exponent, to the 53 bits of a double
RoundHalfEven(r) ==
    IF ~GeqNat(r.x, Two53) /\ ~r.sticky /\ r.k >= -1074 THEN [x |-> r.x, k |-> r.k]
    ELSE [x |-> IF IsOdd(r.x) /\ (r.sticky \/ IsOdd(Half(r.x)))
                THEN PlusOne(Half(r.x)) ELSE Half(r.x),
          k |-> r.k + 1]

\* the float odd.x * 2^odd.k
Binary(negative, odd) ==
    IF odd.x = <<>> THEN FloatZero(negative)
    ELSE [t |-> "float", s |-> odd.x, n |-> odd.k, b |-> negative, items |-> <<>>]

\* the float of the rounded q.x * 2^q.k: past the largest double it is inf
Finite(negative, q) ==
    IF q.k > 971 \/ (q.k = 971 /\ GeqNat(q.x, Two53)) THEN Inf(negative)
    ELSE Binary(negative, OddPart(q))

\* the float nearest to m * 10^e, m without zeros at either end
FloatOfDecimal(negative, m, e) ==
    IF m = <<>> THEN FloatZero(negative)
    ELSE IF Len(m) + e > 309 THEN Inf(negative)
    ELSE IF Len(m) + e < -323 THEN FloatZero(negative)
    ELSE Finite(negative, RoundHalfEven(Reduce(Scaled(m, e))))

\* float() of the decimal  (-1)^negative * digits * 10^exp10  (PyOS_string_
\* to_double): the nearest double, ties to the even one; inf from
\* 2**1024 - 2**970 on, and a zero that keeps its sign below half the
\* smallest subnormal.  A decimal of over 309 digits before the point is
\* inf and one below 1e-324 is zero without any arithmetic.
Float(negative, digits, exp10) ==
    FloatOfDecimal(negative,
                   StripTrailingZeros(StripLeadingZeros(digits)),
                   exp10 + TrailingZeros(StripLeadingZeros(digits)))

Bool(x) == [t |-> "bool", s |-> <<>>, n |-> 0, b |-> x, items |-> <<>>]

List(elems) == [t |-> "list", s |-> <<>>, n |-> 0, b |-> FALSE, items |-> elems]

Dict(pairs) == [t |-> "dict", s |-> <<>>, n |-> 0, b |-> FALSE, items |-> pairs]

\* datetime.time(hour, minute), kept as minutes since midnight
Time(tm) == [t |-> "time", s |-> <<>>, n |-> tm.hour * 60 + tm.minute, b |-> FALSE, items |-> <<>>]

Pair(key, val) == [k |-> key, v |-> val]

\* the value of an int, bool or float as sign, odd part and power of two;
\* 0, 0.0 and -0.0 are one value
Number(v) ==
    IF v.t = "bool" THEN [neg |-> FALSE, x |-> IF v.b THEN <<1>> ELSE <<>>, k |-> 0]
    ELSE IF v.t = "int"
         THEN [neg |-> v.b] @@ OddPart([x |-> v.s, k |-> 0])
    ELSE [neg |-> v.b /\ v.s # <<>>, x |-> v.s, k |-> v.n]

\* Python's == (and hash) on dict keys: numbers compare by value, so
\* 1 == 1.0 == True; every other key compares with its own type
KeyEq(a, c) ==
    IF a.t \in {"int", "bool", "float"} /\ c.t \in {"int", "bool", "float"}
    THEN Number(a) = Number(c)
    ELSE a = c

\* key in d
Has(d, key) == \E i \in 1..Len(d.items) : KeyEq(d.items[i].k, key)

\* d[key], for a key that is in d
Get(d, key) == d.items[CHOOSE i \in 1..Len(d.items) : KeyEq(d.items[i].k, key)].v

\* set(d.keys())
Keys(d) == {d.items[i].k : i \in 1..Len(d.items)}

\* d[key] = val : an existing key keeps its place (and its first spelling),
\* a new key goes last
DictSetItem(d, key, val) ==
    IF Has(d, key)
    THEN Dict([i \in 1..Len(d.items) |->
                 IF KeyEq(d.items[i].k, key) THEN Pair(d.items[i].k, val) ELSE d.items[i]])
    ELSE Dict(Append(d.items, Pair(key, val)))

RECURSIVE DictFromPairs(_, _)
\* d with every pair of pairs set on it, first to last
DictFromPairs(d, pairs) ==
    IF pairs = <<>> THEN d
    ELSE IF Len(pairs) = 1 THEN DictSetItem(d, pairs[1].k, pairs[1].v)
    ELSE LET half == Len(pairs) \div 2
             first == DictFromPairs(d, SubSeq(pairs, 1, half))
         IN  IF first.t # "dict" THEN first
             ELSE DictFromPairs(first, SubSeq(pairs, half + 1, Len(pairs)))

(***************************************************************************)
(* json.loads on extra_json (line 128): the text is scanned code point by  *)
(* code point as json.decoder and the scanner of _json do.                 *)
(***************************************************************************)
\* json.decoder.WHITESPACE_STR: space, \t, \n, \r
WHITESPACE == {32, 9, 10, 13}

\* the code points of "0" to "9"
Digits == 48..57

\* the scanner's result: a value and the index after it, or an exception
Scanned(val, nxt) == [ok |-> TRUE, err |-> "", val |-> val, next |-> nxt]

\* the scanner raises the exception e
Raise(e) == [ok |-> FALSE, err |-> e, val |-> None, next |-> 0]

\* no value at this index (raise_stop_iteration): json.loads makes it the
\* JSONDecodeError "Expecting value"
StopIteration == Raise("StopIteration")

\* what a subscript self[...] of a StructValue takes of the recursion
\* limit while it is evaluated
SubscriptFrames == 1

\* the calls loads, decode and raw_decode, which json.loads nests before the
\* scanner runs
LoadsFrames == 3

\* the call of the scanner itself (self.scan_once in raw_decode)
ScannerFrames == 1

\* what an object or an array takes of the recursion limit while it is
\* read (Py_EnterRecursiveCall in scan_once)
ContainerFrames == 1

\* what the parse_constant callback of NaN, Infinity and -Infinity takes
ConstantFrames == 1

\* what it takes to make a JSONDecodeError: the call of the class, its
\* __init__ and ValueError.__init__
DecodeErrorFrames == 3

\* raise_errmsg with room calls left before the recursion limit: the
\* scanner calls JSONDecodeError, and it is RecursionError that is raised
\* when that call does not fit
raise_errmsg(room) == IF room >= DecodeErrorFrames THEN "JSONDecodeError" ELSE "RecursionError"

\* a loop of the scanner between two of its rounds: the items read so far
\* and the index the next round starts at
Scanning(items, nxt) == [st |-> "more", err |-> "", items |-> items, next |-> nxt]

\* the loop has met the end of what it reads: nxt is the index after it
Ended(items, nxt) == [st |-> "end", err |-> "", items |-> items, next |-> nxt]

\* the loop has raised
Failed(e) == [st |-> "error", err |-> e, items |-> <<>>, next |-> 0]

\* sys.int_info.default_max_str_digits: int() of more digits raises
\* ValueError
IntMaxStrDigits == 4300

\* int() refused the digits of an integer literal
IntTooLong == Raise("ValueError")

At(s, i, c) == i <= Len(s) /\ s[i] = Ord[c]

\* WHITESPACE.match(s, i).end(): the index after the run of whitespace
\* that starts at i
SkipWs(s, i) ==
    IF i > Len(s) THEN i
    ELSE IF \A k \in i..Len(s) : s[k] \in WHITESPACE THEN Len(s) + 1
    ELSE CHOOSE j \in i..Len(s) :
             s[j] \notin WHITESPACE /\ \A k \in i..(j - 1) : s[k] \in WHITESPACE

\* s[i:i+len(lit)] == lit
MatchAt(s, i, lit) ==
    /\ i + Len(lit) - 1 <= Len(s)
    /\ SubSeq(s, i, i + Len(lit) - 1) = S(lit)

\* json.decoder.BACKSLASH: the character of a one-letter escape, 0 if the
\* letter is none of " \ / b f n r t
BACKSLASH(c) ==
    CASE c = Ord["\""] -> 34 [] c = Ord["\\"] -> 92 [] c = Ord["/"] -> 47
      [] c = Ord["b"] -> 8 [] c = Ord["f"] -> 12 [] c = Ord["n"] -> 10
      [] c = Ord["r"] -> 13 [] c = Ord["t"] -> 9 [] OTHER -> 0

\* the value of a hexadecimal digit, -1 for any other character
HexDigit(c) ==
    IF c \in 48..57 THEN c - 48
    ELSE IF c \in 97..102 THEN c - 87
    ELSE IF c \in 65..70 THEN c - 55
    ELSE -1

\* the four hexadecimal digits s[i..i+3] as a number, -1 if they are not
\* all there
Hex4(s, i) ==
    IF i + 3 > Len(s) \/ \E j \in i..(i + 3) : HexDigit(s[j]) = -1 THEN -1
    ELSE HexDigit(s[i]) * 4096 + HexDigit(s[i + 1]) * 256
         + HexDigit(s[i + 2]) * 16 + HexDigit(s[i + 3])

\* json.decoder.STRINGCHUNK: the characters a string takes as they are,
\* every one but the quote, the backslash and the control characters
StringChunk(c) == c >= 32 /\ c # 34 /\ c # 92

\* the index after the run of StringChunk characters that starts at i
StringChunkEnd(s, i) ==
    IF i > Len(s) THEN i
    ELSE IF \A k \in i..Len(s) : StringChunk(s[k]) THEN Len(s) + 1
    ELSE CHOOSE j \in i..Len(s) :
             ~StringChunk(s[j]) /\ \A k \in i..(j - 1) : StringChunk(s[k])

\* one round of scanstring's loop: the chunk up to the next terminator,
\* and the terminator, which ends the string or starts an escape
StringRound(s, r) ==
    LET j == StringChunkEnd(s, r.next)
        chunk == r.items \o SubSeq(s, r.next, j - 1)
        c == Hex4(s, j + 2)
        c2 == Hex4(s, j + 8)
    IN  IF j > Len(s) THEN Failed("JSONDecodeError")
        ELSE IF s[j] = Ord["\""] THEN Ended(chunk, j + 1)
        ELSE IF s[j] < 32 THEN Failed("JSONDecodeError")
        ELSE IF j + 1 > Len(s) THEN Failed("JSONDecodeError")
        ELSE IF s[j + 1] # Ord["u"]
             THEN IF BACKSLASH(s[j + 1]) = 0 THEN Failed("JSONDecodeError")
                  ELSE Scanning(Append(chunk, BACKSLASH(s[j + 1])), j + 2)
        ELSE IF c = -1 THEN Failed("JSONDecodeError")
        ELSE IF c \in 55296..56319 /\ j + 11 < Len(s)
                /\ s[j + 6] = Ord["\\"] /\ s[j + 7] = Ord["u"]
             THEN IF c2 = -1 THEN Failed("JSONDecodeError")
                  ELSE IF c2 \in 56320..57343
                       THEN Scanning(Append(chunk, 65536 + (c - 55296) * 1024 + (c2 - 56320)),
                                     j + 12)
                       ELSE Scanning(Append(chunk, c), j + 6)
        ELSE Scanning(Append(chunk, c), j + 6)

RECURSIVE StringRounds(_, _, _)
\* up to n rounds of scanstring's loop
StringRounds(s, r, n) ==
    IF r.st # "more" THEN r
    ELSE IF n <= 1 THEN StringRound(s, r)
    ELSE StringRounds(s, StringRounds(s, r, n \div 2), n - (n \div 2))

RECURSIVE StringLoop(_, _, _)
\* scanstring's `while 1`: rounds until one ends the string or raises, the
\* next n of them first
StringLoop(s, r, n) ==
    IF r.st # "more" THEN r ELSE StringLoop(s, StringRounds(s, r, n), 2 * n)

\* the value a finished loop of scanstring returns; every failure of
\* scanstring is a raise_errmsg
StringResult(r, room) ==
    IF r.st = "end" THEN Scanned(Str(r.items), r.next) ELSE Raise(raise_errmsg(room))

\* json.decoder.scanstring (_json.scanstring_unicode), strict: i is the
\* index after the opening quote, room the calls left before the recursion
\* limit
scanstring(s, i, room) == StringResult(StringLoop(s, Scanning(<<>>, i), 1), room)

\* index after the run of digits that starts at i
ScanDigits(s, i) ==
    IF i > Len(s) THEN i
    ELSE IF \A k \in i..Len(s) : s[k] \in Digits THEN Len(s) + 1
    ELSE CHOOSE j \in i..Len(s) : s[j] \notin Digits /\ \A k \in i..(j - 1) : s[k] \in Digits

\* the digits s[i..j-1] as numbers
DigitsOf(s, i, j) == [k \in 1..(j - i) |-> s[i + k - 1] - 48]

RECURSIVE DigitsValue(_)
\* the number of a short digit sequence
DigitsValue(digits) ==
    IF digits = <<>> THEN 0 ELSE DigitsValue(SubSeq(digits, 1, Len(digits) - 1)) * 10 + digits[Len(digits)]

\* dtoa.c MAX_ABS_EXP: float() takes an exponent of more than nine
\* significant digits, or beyond this value, as this value
MAX_ABS_EXP == 1100000000

\* dtoa.c MAX_DIGITS: float() refuses a literal with more digits, or with
\* a longer fraction
MAX_DIGITS == 1000000000

\* float() refused the digits of a float literal
FloatTooLong == Raise("ValueError")

\* the exponent of a float literal as float() reads it (_Py_dg_strtod):
\* the digits after the leading zeros as they are written, MAX_ABS_EXP
\* when they are more than nine
Exponent(negative, digits) ==
    (IF negative THEN -1 ELSE 1)
    * (IF Len(StripLeadingZeros(digits)) > 9
          \/ DigitsValue(StripLeadingZeros(digits)) > MAX_ABS_EXP
       THEN MAX_ABS_EXP
       ELSE DigitsValue(StripLeadingZeros(digits)))

\* (\.[0-9]+)? at intEnd: the index after the fraction, intEnd if there is
\* none
FractionEnd(s, intEnd) ==
    IF At(s, intEnd, ".") /\ ScanDigits(s, intEnd + 1) > intEnd + 1
    THEN ScanDigits(s, intEnd + 1) ELSE intEnd

\* the index of the first digit of an exponent that starts at fracEnd
ExponentStart(s, fracEnd) ==
    IF At(s, fracEnd + 1, "-") \/ At(s, fracEnd + 1, "+") THEN fracEnd + 2 ELSE fracEnd + 1

\* ([eE][-+]?[0-9]+)? at fracEnd: the index after the exponent, fracEnd if
\* there is none
ExponentEnd(s, fracEnd) ==
    IF (At(s, fracEnd, "e") \/ At(s, fracEnd, "E"))
       /\ ScanDigits(s, ExponentStart(s, fracEnd)) > ExponentStart(s, fracEnd)
    THEN ScanDigits(s, ExponentStart(s, fracEnd)) ELSE fracEnd

\* int() of the literal s[i..intEnd-1], whose digits start at d0
IntLiteral(s, i, d0, intEnd) ==
    IF intEnd - d0 > IntMaxStrDigits THEN IntTooLong
    ELSE Scanned(IntOfDigits(d0 > i, DigitsOf(s, d0, intEnd)), intEnd)

\* the length of the fraction of a float literal
FractionLength(intEnd, fracEnd) == IF fracEnd > intEnd THEN fracEnd - intEnd - 1 ELSE 0

\* the digits of the integer part and of the fraction of a float literal
FloatDigits(s, d0, intEnd, fracEnd) ==
    DigitsOf(s, d0, intEnd)
        \o (IF fracEnd > intEnd THEN DigitsOf(s, intEnd + 1, fracEnd) ELSE <<>>)

\* float() of the literal s[i..expEnd-1]: its digits, and the exponent
\* less the length of the fraction.  More than MAX_DIGITS digits after the
\* leading zeros, or in the fraction, raise ValueError.
FloatLiteral(s, i, d0, intEnd, fracEnd, expEnd) ==
    IF Len(StripLeadingZeros(FloatDigits(s, d0, intEnd, fracEnd))) > MAX_DIGITS
       \/ FractionLength(intEnd, fracEnd) > MAX_DIGITS
    THEN FloatTooLong
    ELSE Scanned(Float(d0 > i,
                       FloatDigits(s, d0, intEnd, fracEnd),
                       (IF expEnd > fracEnd
                        THEN Exponent(At(s, fracEnd + 1, "-"),
                                      DigitsOf(s, ExponentStart(s, fracEnd), expEnd))
                        ELSE 0)
                       - FractionLength(intEnd, fracEnd)),
                 expEnd)

\* the match of the number pattern ends at expEnd: no digits is no match,
\* no fraction and no exponent is an int, anything else a float
NumberLiteral(s, i, d0, intEnd, fracEnd, expEnd) ==
    IF intEnd = d0 THEN StopIteration
    ELSE IF expEnd = intEnd THEN IntLiteral(s, i, d0, intEnd)
    ELSE FloatLiteral(s, i, d0, intEnd, fracEnd, expEnd)

\* the number pattern after its integer part
NumberFraction(s, i, d0, intEnd, fracEnd) ==
    NumberLiteral(s, i, d0, intEnd, fracEnd, ExponentEnd(s, fracEnd))

\* the number pattern after its sign: (0|[1-9][0-9]*)
NumberInteger(s, i, d0, intEnd) ==
    NumberFraction(s, i, d0, intEnd, FractionEnd(s, intEnd))

\* the number pattern after -?
NumberSign(s, i, d0) ==
    NumberInteger(s, i, d0, IF At(s, d0, "0") THEN d0 + 1 ELSE ScanDigits(s, d0))

\* _json._match_number_unicode: -?(0|[1-9][0-9]*)(\.[0-9]+)?([eE][-+]?[0-9]+)?
\* and the conversion by int() or float()
match_number(s, i) == NumberSign(s, i, IF At(s, i, "-") THEN i + 1 ELSE i)

RECURSIVE scan_once(_, _, _)

\* JSONObject's loop after a comma: the next key must open with a quote
ObjectNextKey(s, all, nextKey, room) ==
    IF ~At(s, nextKey, "\"") THEN Failed(raise_errmsg(room))
    ELSE Scanning(all, nextKey + 1)

\* JSONObject's loop after a pair: } ends the object, a comma goes on
ObjectSeparator(s, all, sep, room) ==
    IF At(s, sep, "}") THEN Ended(all, sep + 1)
    ELSE IF ~At(s, sep, ",") THEN Failed(raise_errmsg(room))
    ELSE ObjectNextKey(s, all, SkipWs(s, sep + 1), room)

\* JSONObject's loop after the value of a key
ObjectValue(s, r, key, value, room) ==
    IF ~value.ok THEN Failed(value.err)
    ELSE ObjectSeparator(s, Append(r.items, Pair(key.val, value.val)),
                         SkipWs(s, value.next), room)

\* JSONObject's loop after a key and the whitespace behind it: the colon
\* and the value
ObjectColon(s, r, key, colon, room) ==
    IF ~At(s, colon, ":") THEN Failed(raise_errmsg(room))
    ELSE ObjectValue(s, r, key, scan_once(s, SkipWs(s, colon + 1), room), room)

\* JSONObject's loop after scanstring has read a key
ObjectKey(s, r, key, room) ==
    IF ~key.ok THEN Failed(key.err)
    ELSE ObjectColon(s, r, key, SkipWs(s, key.next), room)

\* one round of JSONObject's loop: r.next is the index after the opening
\* quote of a key; the key, the colon, the value and what follows it
JSONObjectRound(s, r, room) == ObjectKey(s, r, scanstring(s, r.next, room), room)

RECURSIVE JSONObjectRounds(_, _, _, _)
\* up to n rounds of JSONObject's loop
JSONObjectRounds(s, r, n, room) ==
    IF r.st # "more" THEN r
    ELSE IF n <= 1 THEN JSONObjectRound(s, r, room)
    ELSE JSONObjectRounds(s, JSONObjectRounds(s, r, n \div 2, room), n - (n \div 2), room)

RECURSIVE JSONObjectLoop(_, _, _, _)
\* JSONObject's `while True`: rounds until one ends the object or raises,
\* the next n of them first
JSONObjectLoop(s, r, n, room) ==
    IF r.st # "more" THEN r
    ELSE JSONObjectLoop(s, JSONObjectRounds(s, r, n, room), 2 * n, room)

\* the dict of a finished loop of JSONObject, or its exception: of two
\* pairs with one key the second one's value stands at the first one's place
ObjectResult(r) ==
    IF r.st = "end" THEN Scanned(DictFromPairs(Dict(<<>>), r.items), r.next)
    ELSE Raise(r.err)

\* JSONObject at the first character after "{" that is not whitespace: }
\* or the quote of the first key
ObjectBody(s, j, room) ==
    IF At(s, j, "}") THEN Scanned(Dict(<<>>), j + 1)
    ELSE IF ~At(s, j, "\"") THEN Raise(raise_errmsg(room))
    ELSE ObjectResult(JSONObjectLoop(s, Scanning(<<>>, j + 1), 1, room))

\* json.decoder.JSONObject (_json._parse_object_unicode): i is the index
\* after "{"
JSONObject(s, i, room) == ObjectBody(s, SkipWs(s, i), room)

\* JSONArray's loop after an element: ] ends the array, a comma goes on
ArraySeparator(s, all, sep, room) ==
    IF At(s, sep, "]") THEN Ended(all, sep + 1)
    ELSE IF ~At(s, sep, ",") THEN Failed(raise_errmsg(room))
    ELSE Scanning(all, SkipWs(s, sep + 1))

\* JSONArray's loop after scan_once has read an element
ArrayValue(s, r, value, room) ==
    IF ~value.ok THEN Failed(value.err)
    ELSE ArraySeparator(s, Append(r.items, value.val), SkipWs(s, value.next), room)

\* one round of JSONArray's loop: r.next is the index of an element; the
\* element and what follows it
JSONArrayRound(s, r, room) == ArrayValue(s, r, scan_once(s, r.next, room), room)

RECURSIVE JSONArrayRounds(_, _, _, _)
\* up to n rounds of JSONArray's loop
JSONArrayRounds(s, r, n, room) ==
    IF r.st # "more" THEN r
    ELSE IF n <= 1 THEN JSONArrayRound(s, r, room)
    ELSE JSONArrayRounds(s, JSONArrayRounds(s, r, n \div 2, room), n - (n \div 2), room)

RECURSIVE JSONArrayLoop(_, _, _, _)
\* JSONArray's `while True`: rounds until one ends the array or raises, the
\* next n of them first
JSONArrayLoop(s, r, n, room) ==
    IF r.st # "more" THEN r
    ELSE JSONArrayLoop(s, JSONArrayRounds(s, r, n, room), 2 * n, room)

\* the list of a finished loop of JSONArray, or its exception
ArrayResult(r) ==
    IF r.st = "end" THEN Scanned(List(r.items), r.next) ELSE Raise(r.err)

\* JSONArray at the first character after "[" that is not whitespace
ArrayBody(s, j, room) ==
    IF At(s, j, "]") THEN Scanned(List(<<>>), j + 1)
    ELSE ArrayResult(JSONArrayLoop(s, Scanning(<<>>, j), 1, room))

\* json.decoder.JSONArray (_json._parse_array_unicode): i is the index
\* after "["
JSONArray(s, i, room) == ArrayBody(s, SkipWs(s, i), room)

\* NaN, Infinity and -Infinity go through the parse_constant callback,
\* which is one more call
Constant(val, nxt, room) ==
    IF room < ConstantFrames THEN Raise("RecursionError") ELSE Scanned(val, nxt)

\* the scanner's scan_once (_json.scan_once_unicode) with room calls left
\* before the recursion limit: an object or an array is one call
\* (Py_EnterRecursiveCall) for as long as it is read
scan_once(s, i, room) ==
    IF i > Len(s) THEN StopIteration
    ELSE IF s[i] = Ord["\""] THEN scanstring(s, i + 1, room)
    ELSE IF s[i] = Ord["{"]
         THEN IF room < ContainerFrames THEN Raise("RecursionError")
              ELSE JSONObject(s, i + 1, room - ContainerFrames)
    ELSE IF s[i] = Ord["["]
         THEN IF room < ContainerFrames THEN Raise("RecursionError")
              ELSE JSONArray(s, i + 1, room - ContainerFrames)
    ELSE IF MatchAt(s, i, "null") THEN Scanned(None, i + 4)
    ELSE IF MatchAt(s, i, "true") THEN Scanned(Bool(TRUE), i + 4)
    ELSE IF MatchAt(s, i, "false") THEN Scanned(Bool(FALSE), i + 5)
    ELSE IF MatchAt(s, i, "NaN") THEN Constant(NaN, i + 3, room)
    ELSE IF MatchAt(s, i, "Infinity") THEN Constant(Inf(FALSE), i + 8, room)
    ELSE IF MatchAt(s, i, "-Infinity") THEN Constant(Inf(TRUE), i + 9, room)
    ELSE IF s[i] \in Digits \cup {Ord["-"]} THEN match_number(s, i)
    ELSE StopIteration

\* an exception json.loads raises itself, from a call with `left` calls
\* left before the recursion limit: JSONDecodeError when the calls that make
\* it fit, RecursionError when not
DecodeError(left) ==
    [ok |-> FALSE, err |-> IF left >= DecodeErrorFrames THEN "JSONDecodeError" ELSE "RecursionError",
     val |-> None]

\* what json.loads makes of the document r that scan_once has read with
\* room calls left (JSONDecoder.raw_decode and decode): StopIteration is
\* "Expecting value", raised by raw_decode, and text after the document
\* other than whitespace is "Extra data", raised by decode one call above
LoadsResult(s, r, room) ==
    IF ~r.ok
    THEN IF r.err = "StopIteration" THEN DecodeError(room + ScannerFrames)
         ELSE [ok |-> FALSE, err |-> r.err, val |-> None]
    ELSE IF SkipWs(s, r.next) # Len(s) + 1 THEN DecodeError(room + ScannerFrames + 1)
    ELSE [ok |-> TRUE, err |-> "", val |-> r.val]

\* U+FEFF, with which json.loads takes no text
BOM == 65279

\* json.loads(s) called with `remaining` calls left before the recursion
\* limit: the parsed value, or the exception raised.  loads refuses a text
\* that starts with a byte order mark; loads, decode and raw_decode are
\* calls themselves, and so is the scanner's.
json_loads(s, remaining) ==
    IF s # <<>> /\ s[1] = BOM THEN DecodeError(remaining - 1)
    ELSE IF remaining < LoadsFrames + ScannerFrames
    THEN [ok |-> FALSE, err |-> "RecursionError", val |-> None]
    ELSE LoadsResult(s, scan_once(s, SkipWs(s, 1), remaining - LoadsFrames - ScannerFrames),
                     remaining - LoadsFrames - ScannerFrames)

(***************************************************************************)
(* dict.update(other) (lines 118 and 127), as CPython's dict_update_arg    *)
(* does it: a dict is merged key by key, any other argument is iterated    *)
(* and every element must itself be a sequence of exactly two items, a     *)
(* hashable key and a value.  The result carries the dict as the call left *)
(* it, also when it raised.                                                *)
(***************************************************************************)
Updated(d) == [ok |-> TRUE, err |-> "", d |-> d]

UpdateError(e, d) == [ok |-> FALSE, err |-> e, d |-> d]

\* len(e) of a list, dict or str
SeqLen(e) == IF e.t = "str" THEN Len(e.s) ELSE Len(e.items)

\* the two items a list, dict or str of length two iterates to
TwoItems(e) ==
    IF e.t = "list" THEN Pair(e.items[1], e.items[2])
    ELSE IF e.t = "dict" THEN Pair(e.items[1].k, e.items[2].k)
    ELSE Pair(Str(<<e.s[1]>>), Str(<<e.s[2]>>))

\* one round of PyDict_MergeFromSeq2's loop, on the element e
MergeItem(r, e) ==
    LET item == TwoItems(e)
    IN  IF e.t \notin {"list", "dict", "str"} THEN UpdateError("TypeError", r.d)
        ELSE IF SeqLen(e) # 2 THEN UpdateError("ValueError", r.d)
        ELSE IF item.k.t \in {"list", "dict"} THEN UpdateError("TypeError", r.d)
        ELSE Updated(DictSetItem(r.d, item.k, item.v))

RECURSIVE MergeItems(_, _)
\* the rounds of PyDict_MergeFromSeq2's loop on elems, up to the first that
\* raises
MergeItems(r, elems) ==
    IF ~r.ok \/ elems = <<>> THEN r
    ELSE IF Len(elems) = 1 THEN MergeItem(r, elems[1])
    ELSE MergeItems(MergeItems(r, SubSeq(elems, 1, Len(elems) \div 2)),
                    SubSeq(elems, Len(elems) \div 2 + 1, Len(elems)))

\* PyDict_MergeFromSeq2(d, elems)
MergeFromSeq2(d, elems) == MergeItems(Updated(d), elems)

dict_update(d, other) ==
    IF other.t = "dict" THEN Updated(DictFromPairs(d, other.items))
    ELSE IF other.t = "list" THEN MergeFromSeq2(d, other.items)
    ELSE IF other.t = "str"
         THEN (IF Len(other.s) = 0 THEN Updated(d) ELSE UpdateError("ValueError", d))
    ELSE UpdateError("TypeError", d)

(***************************************************************************)
(* The outcome of reading the struct_dict property.                        *)
(***************************************************************************)
Returned(val) == [st |-> "returned", err |-> "", ret |-> val]

Raised(e) == [st |-> "raised", err |-> e, ret |-> None]

NotRead == [st |-> "unread", err |-> "", ret |-> None]

(***************************************************************************)
(* OpenHoursValue.struct_dict (lines 43-53).  self["days"] is the list of  *)
(* the selected choice values, self["start_time"] and self["end_time"] are *)
(* the datetime.time values of the two TimeBlocks.                         *)
(***************************************************************************)
RECURSIVE WithoutRepeats(_, _)
\* days with every repeated selection dropped
WithoutRepeats(days, seen) ==
    IF days = <<>> THEN <<>>
    ELSE IF Head(days) \in seen THEN WithoutRepeats(Tail(days), seen)
    ELSE <<Head(days)>> \o WithoutRepeats(Tail(days), seen \cup {Head(days)})

\* variant of DaysList: the selection is deduplicated before it is emitted
DaysList_deduplicated(days) ==
    List([i \in 1..Len(WithoutRepeats(days, {})) |-> Str(WithoutRepeats(days, {})[i])])

\* self["days"] as a Python list of str
DaysList(days) == List([i \in 1..Len(days) |-> Str(days[i])])

OpenHoursValue_struct_dict(self) ==
    Returned(Dict(<<Pair(Lit("@type"), Lit("OpeningHoursSpecification")),
                    Pair(Lit("dayOfWeek"), DaysList(self.days)),
                    Pair(Lit("opens"), Time(self.start_time)),
                    Pair(Lit("closes"), Time(self.end_time))>>))

\* the StructValue after a read of its struct_dict (lines 48-53): the
\* property only reads self[...], no field is assigned
OpenHoursAfterRead(self) == self

(***************************************************************************)
(* StructuredDataActionValue.struct_dict (lines 95-130).                   *)
(***************************************************************************)
\* variant of actionPlatform: the mobile platforms change places
actionPlatform_reordered ==
    List(<<Lit("http://schema.org/DesktopWebPlatform"),
           Lit("http://schema.org/AndroidPlatform"),
           Lit("http://schema.org/IOSPlatform")>>)

\* lines 110-114
actionPlatform ==
    List(<<Lit("http://schema.org/DesktopWebPlatform"),
           Lit("http://schema.org/IOSPlatform"),
           Lit("http://schema.org/AndroidPlatform")>>)

\* variant of ActionBase: the target is wrapped for every action type
ActionBase_always_EntryPoint(self) ==
    Dict(<<Pair(Lit("@type"), Str(self.action_type)),
           Pair(Lit("target"),
                Dict(<<Pair(Lit("@type"), Lit("EntryPoint")),
                       Pair(Lit("urlTemplate"), Str(self.target)),
                       Pair(Lit("inLanguage"), Str(self.language)),
                       Pair(Lit("actionPlatform"), actionPlatform)>>))>>)

\* lines 97-116: sd_dict as the if/else builds it
ActionBase(self) ==
    IF self.action_type = S("SearchAction")
    THEN Dict(<<Pair(Lit("@type"), Str(self.action_type)),
                Pair(Lit("target"), Str(self.target)),
                Pair(Lit("query"), Str(self.query))>>)
    ELSE Dict(<<Pair(Lit("@type"), Str(self.action_type)),
                Pair(Lit("target"),
                     Dict(<<Pair(Lit("@type"), Lit("EntryPoint")),
                            Pair(Lit("urlTemplate"), Str(self.target)),
                            Pair(Lit("inLanguage"), Str(self.language)),
                            Pair(Lit("actionPlatform"), actionPlatform)>>))>>)

\* variant of ActionResult: the test is on result_name
ActionResult_on_result_name(sd_dict, self) ==
    IF self.result_name # <<>>
    THEN dict_update(sd_dict,
                     Dict(<<Pair(Lit("result"),
                                 Dict(<<Pair(Lit("@type"), Str(self.result_type)),
                                        Pair(Lit("name"), Str(self.result_name))>>))>>)).d
    ELSE sd_dict

\* lines 117-125: sd_dict after the result update
ActionResult(sd_dict, self) ==
    IF self.result_type # <<>>
    THEN dict_update(sd_dict,
                     Dict(<<Pair(Lit("result"),
                                 Dict(<<Pair(Lit("@type"), Str(self.result_type)),
                                        Pair(Lit("name"), Str(self.result_name))>>))>>)).d
    ELSE sd_dict

\* line 129: what the property returns after the update of line 127
ExtraUpdated(update) ==
    IF ~update.ok THEN Raised(update.err) ELSE Returned(update.d)

\* variant of ExtraLoaded: the merge goes the other way, the keys of
\* Steps 1-2 win over those of extra_json
ExtraLoaded_first_write_wins(sd_dict, loaded) ==
    IF ~loaded.ok THEN Raised(loaded.err)
    ELSE IF loaded.val.t = "dict"
         THEN Returned(DictFromPairs(loaded.val, sd_dict.items))
    ELSE ExtraUpdated(dict_update(sd_dict, loaded.val))

\* lines 127-128: sd_dict.update(...) on what json.loads has made of
\* extra_json; an exception of json.loads or of dict.update leaves the
\* property
ExtraLoaded(sd_dict, loaded) ==
    IF ~loaded.ok THEN Raised(loaded.err)
    ELSE ExtraUpdated(dict_update(sd_dict, loaded.val))

\* lines 126-130: the extra_json update and the return
ActionExtra(sd_dict, self, calls) ==
    IF self.extra_json # <<>>
    THEN ExtraLoaded(sd_dict, json_loads(self.extra_json, calls))
    ELSE Returned(sd_dict)

\* the property read with `calls` Python calls left to nest inside its
\* body before the recursion limit (sys.getrecursionlimit(), less the
\* depth of the stack the read is made from); the subscripts of the body
\* need one
StructuredDataActionValue_struct_dict(self, calls) ==
    IF calls < SubscriptFrames THEN Raised("RecursionError")
    ELSE ActionExtra(ActionResult(ActionBase(self), self), self, calls)

\* the StructValue after a read of its struct_dict (lines 97-129): the
\* property only reads self[...], sd_dict is a fresh dict, no field is assigned
ActionAfterRead(self) == self

(***************************************************************************)
(* The entries the projections are read on.                                *)
(***************************************************************************)
Text_empty == S("")

Text_query_override == S("{\"query\": \"override\"}")

Text_target_override == S("{\"target\": \"https://ex.com/s\"}")

Text_type_override == S("{\"@type\": \"Action\"}")

Text_result_override == S("{\"result\": null}")

Text_new_keys == S("{\"name\": \"Find\", \"n\": [1, -2]}")

Text_empty_object == S(" {} ")

Text_duplicate_key == S("{\"query\":1,\"query\":2}")

\* escapes in a string and a float
Text_escapes_and_float == S("{\"name\": \"caf\\u00e9\\n\", \"price\": 1.50}")

Text_not_json == S("not json")

Text_trailing_comma == S("{\"a\": 1,}")

Text_extra_data == S("{\"a\": 1} x")

Text_blank == S(" ")

Text_array == S("[1,2,3]")

Text_empty_array == S("[]")

Text_array_of_pairs == S("[[\"name\", \"x\"]]")

Text_array_pair_then_int == S("[[\"result\", 1], 3]")

Text_array_of_str == S("[\"ab\"]")

\* two pairs whose keys 1.0 and 1 are one key
Text_array_of_equal_numbers == S("[[1.0, \"a\"], [1, \"b\"]]")

Text_string == S("\"ab\"")

Text_empty_string == S("\"\"")

Text_number == S("7")

Text_true == S("true")

Text_null == S("null")

\* an object nested five deep
Text_nested_object == S("{\"a\": {\"b\": {\"c\": [{\"d\": 1}]}}}")

\* an object with the constant NaN, which is not JSON
Text_nan_value == S("{\"a\": NaN}")

\* the constant -Infinity in a pair
Text_infinity_pair == S("[[\"a\", -Infinity]]")

\* the constant Infinity alone
Text_infinity == S("Infinity")

\* an array closed by the wrong bracket, three deep
Text_nested_unclosed == S("{\"a\": [[1, 2}")

ExtraJsonTexts ==
    {Text_empty, Text_query_override, Text_target_override, Text_type_override,
     Text_result_override, Text_new_keys, Text_empty_object, Text_duplicate_key,
     Text_escapes_and_float, Text_array_of_equal_numbers,
     Text_not_json, Text_trailing_comma, Text_extra_data, Text_blank,
     Text_array, Text_empty_array, Text_array_of_pairs, Text_array_pair_then_int,
     Text_array_of_str, Text_string, Text_empty_string, Text_number, Text_true, Text_null,
     Text_nested_object, Text_nan_value, Text_infinity_pair, Text_infinity,
     Text_nested_unclosed}

\* the field values of a StructuredDataActionBlock (lines 142-185)
ActionEntries ==
    [action_type : {S("SearchAction"), S("ReserveAction"), S("OrderAction")},
     target : {S("https://ex.com/book"), S("https://ex.com/search?q={query}")},
     query : {S(""), S("required name=query")},
     language : {S("en-US"), S("de-DE")},
     result_type : {S(""), S("Reservation")},
     result_name : {S(""), S("Book a table")},
     extra_json : ExtraJsonTexts]

\* the choices of OpenHoursBlock.days (lines 72-80)
Weekdays == {S("Monday"), S("Tuesday"), S("Wednesday"), S("Thursday"), S("Friday"), S("Saturday"), S("Sunday")}

\* the days the entries of the model select from
DayChoices == {S("Monday"), S("Sunday")}

TimeChoices ==
    {[hour |-> 0, minute |-> 0], [hour |-> 9, minute |-> 5], [hour |-> 17, minute |-> 30]}

\* the calls left inside a property read from a stack that is nearly at
\* the recursion limit, and from one that is not.  Every read is made with
\* the one call the subscripts of a property take, which is all the read
\* of OpenHoursValue.struct_dict takes.
CallsLeft == {1, 5, 8, 990}

\* the field values of an OpenHoursBlock (lines 65-87); days is required
OpenHoursEntries ==
    [days : UNION {[1..n -> DayChoices] : n \in 1..MaxDays},
     start_time : TimeChoices,
     end_time : TimeChoices]

(***************************************************************************)
(* The state machine: two entries, built by the caller, and the reads of   *)
(* their struct_dict property in any order.                                *)
(***************************************************************************)
\* the entries a page is first built with
DefaultAction ==
    [action_type |-> S("ReserveAction"), target |-> S("https://ex.com/book"), query |-> S(""),
     language |-> S("en-US"), result_type |-> S("Reservation"), result_name |-> S("Book a table"),
     extra_json |-> Text_empty]

DefaultOpenHours ==
    [days |-> <<S("Monday")>>, start_time |-> [hour |-> 9, minute |-> 5],
     end_time |-> [hour |-> 17, minute |-> 30]]

\* one of the two entries ranges over its inputs, the other is the default
Init ==
    /\ \/ action \in ActionEntries /\ hours = DefaultOpenHours
       \/ action = DefaultAction /\ hours \in OpenHoursEntries
    /\ actionOut = NotRead
    /\ hoursOut = NotRead
    /\ reads = 0
    /\ callsLeft \in CallsLeft

\* a read of OpenHoursValue.struct_dict
ReadOpenHours ==
    /\ reads < MaxReads
    /\ hoursOut' = OpenHoursValue_struct_dict(hours)
    /\ hours' = OpenHoursAfterRead(hours)
    /\ reads' = reads + 1
    /\ UNCHANGED <<action, actionOut, callsLeft>>

\* a read of StructuredDataActionValue.struct_dict
ReadAction ==
    /\ reads < MaxReads
    /\ actionOut' = StructuredDataActionValue_struct_dict(action, callsLeft)
    /\ action' = ActionAfterRead(action)
    /\ reads' = reads + 1
    /\ UNCHANGED <<hours, hoursOut, callsLeft>>

Next == ReadOpenHours \/ ReadAction

Spec == Init /\ [][Next]_vars

(***************************************************************************)
(* What the sample texts are, stated by hand and not by the parser.        *)
(***************************************************************************)
\* texts that are a JSON object
ObjectTexts ==
    {Text_query_override, Text_target_override, Text_type_override, Text_result_override,
     Text_new_keys, Text_empty_object, Text_duplicate_key, Text_escapes_and_float,
     Text_nested_object}

\* texts that are valid JSON but not an object
NonObjectTexts ==
    {Text_array, Text_empty_array, Text_array_of_pairs, Text_array_pair_then_int,
     Text_array_of_str, Text_array_of_equal_numbers, Text_string, Text_empty_string, Text_number, Text_true, Text_null}

\* non-empty texts that are not valid JSON: NaN, Infinity and -Infinity
\* are no JSON values
NotJsonTexts ==
    {Text_not_json, Text_trailing_comma, Text_extra_data, Text_blank,
     Text_nan_value, Text_infinity_pair, Text_infinity, Text_nested_unclosed}

\* how deep the objects and arrays of an object text are nested
ObjectDepth(text) ==
    CASE text = Text_nested_object -> 5
      [] text = Text_new_keys -> 2
      [] OTHER -> 1

\* json.loads parses the object text when it is read: the four calls it
\* nests down to the scanner and one more for every level of nesting fit in
\* the calls left
Parses(text) == callsLeft >= 4 + ObjectDepth(text)

\* the top-level keys and values an object text (or the empty text) overlays
ExpectedOverlay(text) ==
    CASE text = Text_query_override -> Dict(<<Pair(Lit("query"), Lit("override"))>>)
      [] text = Text_target_override -> Dict(<<Pair(Lit("target"), Lit("https://ex.com/s"))>>)
      [] text = Text_type_override -> Dict(<<Pair(Lit("@type"), Lit("Action"))>>)
      [] text = Text_result_override -> Dict(<<Pair(Lit("result"), None)>>)
      [] text = Text_new_keys ->
             Dict(<<Pair(Lit("name"), Lit("Find")),
                    Pair(Lit("n"), List(<<PyInt(1), PyInt(-2)>>))>>)
      [] text = Text_duplicate_key -> Dict(<<Pair(Lit("query"), PyInt(2))>>)
      [] text = Text_escapes_and_float ->
             Dict(<<Pair(Lit("name"), Str(S("caf") \o <<233, 10>>)),
                    Pair(Lit("price"), Float(FALSE, <<1, 5>>, -1))>>)
      [] text = Text_nested_object ->
             Dict(<<Pair(Lit("a"),
                         Dict(<<Pair(Lit("b"),
                                     Dict(<<Pair(Lit("c"),
                                                 List(<<Dict(<<Pair(Lit("d"), PyInt(1))>>)>>))>>))>>))>>)
      [] text \in {Text_empty_object, Text_empty} -> Dict(<<>>)

\* extra_json is empty or parses to a JSON object
EmptyOrObject(text) == text = Text_empty \/ (text \in ObjectTexts /\ Parses(text))

\* extra_json is empty or parses to a JSON object that does not set the
\* top-level key
NoOverlayOf(text, key) ==
    /\ EmptyOrObject(text)
    /\ ~Has(ExpectedOverlay(text), Lit(key))

ActionRead == actionOut.st # "unread"

OpenHoursRead == hoursOut.st # "unread"

\* the EntryPoint object the claims expect for a non-search action
ExpectedEntryPoint(e) ==
    Dict(<<Pair(Lit("@type"), Lit("EntryPoint")),
           Pair(Lit("urlTemplate"), Str(e.target)),
           Pair(Lit("inLanguage"), Str(e.language)),
           Pair(Lit("actionPlatform"),
                List(<<Lit("http://schema.org/DesktopWebPlatform"),
                       Lit("http://schema.org/IOSPlatform"),
                       Lit("http://schema.org/AndroidPlatform")>>))>>)

\* the result object the claims expect
ExpectedResult(e) ==
    Dict(<<Pair(Lit("@type"), Str(e.result_type)), Pair(Lit("name"), Str(e.result_name))>>)

\* the keys Steps 1 and 2 set
ExpectedStepKeys(e) ==
    {Lit("@type"), Lit("target")}
        \cup (IF e.action_type = S("SearchAction") THEN {Lit("query")} ELSE {})
        \cup (IF e.result_type # <<>> THEN {Lit("result")} ELSE {})

\* the value Steps 1 and 2 give a key
ExpectedStepValue(e, key) ==
    CASE key = Lit("@type") -> Str(e.action_type)
      [] key = Lit("target") ->
             IF e.action_type = S("SearchAction") THEN Str(e.target) ELSE ExpectedEntryPoint(e)
      [] key = Lit("query") -> Str(e.query)
      [] key = Lit("result") -> ExpectedResult(e)

\* two dicts with the same keys and the same value for every key
SameDict(d1, d2) ==
    /\ d1.t = "dict" /\ d2.t = "dict"
    /\ Keys(d1) = Keys(d2)
    /\ \A key \in Keys(d1) : Get(d1, key) = Get(d2, key)

(***************************************************************************)
(* C1                                                                      *)
(***************************************************************************)
\* C1: when extra_json is empty or parses to a JSON object, the Action projection
\* returns a dict whose keys are those of Steps 1-2 and of the object, every
\* key of the object has the object's value (also @type, target, query,
\* result), and every other key has its Step 1-2 value.
C1_OverlayLastWriteWins ==
    (ActionRead /\ EmptyOrObject(action.extra_json)) =>
        /\ actionOut.st = "returned"
        /\ actionOut.ret.t = "dict"
        /\ Keys(actionOut.ret) = ExpectedStepKeys(action) \cup Keys(ExpectedOverlay(action.extra_json))
        /\ \A key \in Keys(ExpectedOverlay(action.extra_json)) :
               Get(actionOut.ret, key) = Get(ExpectedOverlay(action.extra_json), key)
        /\ \A key \in ExpectedStepKeys(action) \ Keys(ExpectedOverlay(action.extra_json)) :
               Get(actionOut.ret, key) = ExpectedStepValue(action, key)

\* a search action read with {"query": "override"}: the overlay has won
C1_Witness ==
    /\ ActionRead
    /\ action.action_type = S("SearchAction")
    /\ action.query = S("required name=query")
    /\ action.extra_json = Text_query_override
    /\ actionOut.st = "returned"
    /\ Get(actionOut.ret, Lit("query")) = Lit("override")

(***************************************************************************)
(* C2                                                                      *)
(***************************************************************************)
\* C2 as stated: for every SearchAction entry the returned target is the
\* literal input target string.
C2_Original ==
    (ActionRead /\ action.action_type = S("SearchAction") /\ actionOut.st = "returned") =>
        /\ Has(actionOut.ret, Lit("target"))
        /\ Get(actionOut.ret, Lit("target")) = Str(action.target)

\* C2 amended: for every SearchAction entry whose extra_json is empty or a
\* JSON object without a top-level "target" key, the projection returns and
\* its target is the literal input target string, not an EntryPoint object.
C2_SearchTargetLiteral ==
    (ActionRead /\ action.action_type = S("SearchAction")
        /\ NoOverlayOf(action.extra_json, "target")) =>
        /\ actionOut.st = "returned"
        /\ Has(actionOut.ret, Lit("target"))
        /\ Get(actionOut.ret, Lit("target")) = Str(action.target)

\* a search action without a target overlay has been read
C2_Witness ==
    /\ ActionRead
    /\ action.action_type = S("SearchAction")
    /\ action.extra_json = Text_query_override
    /\ action.target = S("https://ex.com/search?q={query}")
    /\ actionOut.st = "returned"
    /\ Get(actionOut.ret, Lit("target")).t = "str"

(***************************************************************************)
(* C3                                                                      *)
(***************************************************************************)
\* C3 as stated: for every entry that is not a SearchAction the returned
\* target is the EntryPoint object with the three platform URIs in order,
\* urlTemplate = target and inLanguage = language.
C3_Original ==
    (ActionRead /\ action.action_type # S("SearchAction") /\ actionOut.st = "returned") =>
        /\ Has(actionOut.ret, Lit("target"))
        /\ Get(actionOut.ret, Lit("target")) = ExpectedEntryPoint(action)

\* C3 amended: for every entry that is not a SearchAction and whose
\* extra_json is empty or a JSON object without a top-level "target" key,
\* the returned target is the EntryPoint object with actionPlatform the
\* three fixed URIs in order, urlTemplate = target, inLanguage = language.
C3_EntryPointTarget ==
    (ActionRead /\ action.action_type # S("SearchAction")
        /\ NoOverlayOf(action.extra_json, "target")) =>
        /\ actionOut.st = "returned"
        /\ Has(actionOut.ret, Lit("target"))
        /\ SameDict(Get(actionOut.ret, Lit("target")), ExpectedEntryPoint(action))
        /\ Get(Get(actionOut.ret, Lit("target")), Lit("actionPlatform")).items[2]
               = Lit("http://schema.org/IOSPlatform")

\* a reserve action in German without a target overlay has been read
C3_Witness ==
    /\ ActionRead
    /\ action.action_type = S("ReserveAction")
    /\ action.language = S("de-DE")
    /\ action.extra_json = Text_type_override
    /\ actionOut.st = "returned"
    /\ Get(actionOut.ret, Lit("target")).t = "dict"

(***************************************************************************)
(* C4                                                                      *)
(***************************************************************************)
\* C4 as stated: with an empty result_type the returned dict has no
\* "result" key.
C4_Original ==
    (ActionRead /\ action.result_type = <<>> /\ actionOut.st = "returned") =>
        ~Has(actionOut.ret, Lit("result"))

\* C4 amended: with an empty result_type and an extra_json that is empty or
\* a JSON object without a top-level "result" key, the returned dict has no
\* "result" key, whatever result_name is.
C4_NoResultWithoutType ==
    (ActionRead /\ action.result_type = <<>> /\ NoOverlayOf(action.extra_json, "result")) =>
        /\ actionOut.st = "returned"
        /\ ~Has(actionOut.ret, Lit("result"))

\* an entry with a result_name but no result_type has been read
C4_Witness ==
    /\ ActionRead
    /\ action.result_type = <<>>
    /\ action.result_name = S("Book a table")
    /\ action.extra_json = Text_new_keys
    /\ actionOut.st = "returned"

(***************************************************************************)
(* C5                                                                      *)
(***************************************************************************)
\* C5 as stated: with a non-empty result_type the returned result is
\* exactly {"@type": result_type, "name": result_name}.
C5_Original ==
    (ActionRead /\ action.result_type # <<>> /\ actionOut.st = "returned") =>
        /\ Has(actionOut.ret, Lit("result"))
        /\ Get(actionOut.ret, Lit("result")) = ExpectedResult(action)

\* C5 amended: with a non-empty result_type and an extra_json that is empty
\* or a JSON object without a top-level "result" key, the returned result is
\* exactly {"@type": result_type, "name": result_name}, name also when empty.
C5_ResultWithType ==
    (ActionRead /\ action.result_type # <<>> /\ NoOverlayOf(action.extra_json, "result")) =>
        /\ actionOut.st = "returned"
        /\ Has(actionOut.ret, Lit("result"))
        /\ SameDict(Get(actionOut.ret, Lit("result")), ExpectedResult(action))

\* an entry with a result_type and an empty result_name has been read
C5_Witness ==
    /\ ActionRead
    /\ action.result_type = S("Reservation")
    /\ action.result_name = <<>>
    /\ action.extra_json = Text_empty
    /\ actionOut.st = "returned"
    /\ Get(Get(actionOut.ret, Lit("result")), Lit("name")) = Lit("")

(***************************************************************************)
(* C6                                                                      *)
(***************************************************************************)
\* C6: when extra_json is valid JSON but not an object, the Action
\* projection raises and returns no dict.
C6_NonObjectRaises ==
    (ActionRead /\ action.extra_json \in NonObjectTexts) => actionOut.st = "raised"

(***************************************************************************)
(* C7                                                                      *)
(***************************************************************************)
\* C7: when extra_json is non-empty and not valid JSON, the Action
\* projection raises an error to the caller and returns no dict.
C7_NotJsonRaises ==
    (ActionRead /\ action.extra_json \in NotJsonTexts) =>
        /\ actionOut.st = "raised"
        /\ actionOut.ret = None

(***************************************************************************)
(* C8                                                                      *)
(***************************************************************************)
\* C8: the OpeningHours projection has @type OpeningHoursSpecification and
\* a dayOfWeek list equal to the input days, element by element.
C8_DaysAsSupplied ==
    OpenHoursRead =>
        /\ hoursOut.st = "returned"
        /\ Get(hoursOut.ret, Lit("@type")) = Lit("OpeningHoursSpecification")
        /\ Get(hoursOut.ret, Lit("dayOfWeek")).t = "list"
        /\ Len(Get(hoursOut.ret, Lit("dayOfWeek")).items) = Len(hours.days)
        /\ \A i \in 1..Len(hours.days) :
               Get(hoursOut.ret, Lit("dayOfWeek")).items[i] = Str(hours.days[i])

\* an entry whose days are out of week order has been read
C8_Witness ==
    /\ OpenHoursRead
    /\ Len(hours.days) = 2
    /\ hours.days[1] = S("Sunday")
    /\ hours.days[2] = S("Monday")
    /\ Len(Get(hoursOut.ret, Lit("dayOfWeek")).items) = 2

(***************************************************************************)
(* C9                                                                      *)
(***************************************************************************)
\* a time of day in 24-hour "HH:MM" form
HHMM(tm) ==
    <<48 + (tm.hour \div 10), 48 + (tm.hour % 10), 58,
      48 + (tm.minute \div 10), 48 + (tm.minute % 10)>>

\* C9: opens and closes of the OpeningHours projection are the "HH:MM"
\* strings of start_time and end_time.
C9_TimesAsHHMM ==
    OpenHoursRead =>
        /\ Get(hoursOut.ret, Lit("opens")) = Str(HHMM(hours.start_time))
        /\ Get(hoursOut.ret, Lit("closes")) = Str(HHMM(hours.end_time))

====
